---- MODULE Spec2Model ----
(***************************************************************************)
(* Risk & alert engine of the trading repository: the monitoring service's *)
(* alert manager and alert sender, the periodic collector / checker loops, *)
(* the threshold comparisons, the resolve endpoints and the alert-config   *)
(* endpoints.  Every subsystem has its own specification over the shared   *)
(* variables; the variables of the other subsystems stay at their initial  *)
(* value.  The relational store behind get_db() and the SMTP / webhook     *)
(* transports are collaborators: a call to them succeeds or fails          *)
(* nondeterministically.                                                   *)
(***************************************************************************)
EXTENDS Integers, Sequences, FiniteSets, TLC

VARIABLES
    now,              \* time.time(), in seconds
    last_alert_time,  \* AlertManager.last_alert_time: dict key -> seconds
    alert_config,     \* the alert_config row read by _get_alert_config, or NoConfig
    alert_history,    \* rows of the alert_history table, oldest first
    notified,         \* notifications handed to the sender / the channels, oldest first
    thread,           \* per calling thread: position inside AlertManager.send_alert
    disp,             \* one run of AlertSender.send_alert
    ev,               \* last threshold evaluation: its input and the candidates it produced
    loops,            \* the periodic loops: position, liveness, cycles started
    cycle,            \* one service-check cycle over the subjects
    store,            \* the alert tables behind the three resolve endpoints
    cfg,              \* alert-config endpoints: thresholds and the last response
    persist,          \* alerts created by the cycles of main.py and by assess_risk
    gate,             \* cooldown configured per alert type against the cooldown applied
    adm,              \* one admitted alert on its way through send, save and timestamp
    runner,           \* a ServiceChecker / MetricsCollector: running flag and loop threads
    risk,             \* one POST /risk-assessment request of the risk service
    calc,             \* last call of a risk-metric function: its series and its result
    health,           \* HealthCheck of health_check.py: failure history and the cycle
    pos               \* position-service: the positions table and its history events

extraVars == <<persist, gate, adm, runner, risk, calc, health, pos>>

vars == <<now, last_alert_time, alert_config, alert_history, notified, thread,
          disp, ev, loops, cycle, store, cfg, extraVars>>

alertVars == <<now, last_alert_time, alert_config, alert_history, notified, thread>>

-----------------------------------------------------------------------------
(* Bounds of the model *)

TimeStep == 150      \* seconds the clock advances in one step
MaxTime == 300       \* the clock stops here
MaxNotified == 2     \* notifications logged before the alert actions stop
MaxHistory == 2      \* alert_history rows before the alert actions stop

(* Program constants *)

CooldownPeriod == 300
DefaultCpuThreshold == 80
DefaultMemoryThreshold == 85
DefaultDiskThreshold == 90
DefaultNetworkInThreshold == 1000000000
DefaultNetworkOutThreshold == 1000000000

-----------------------------------------------------------------------------
(* AlertManager of monitoring-services/app/alert_manager.py *)

NoConfig == [present |-> FALSE]

ResourceTypes == {"cpu_usage", "memory_usage", "disk_usage", "network_in", "network_out"}

Services == {"api", "db"}

Threads == {"t1", "t2"}

\* send_alert(alert_type, ...) is called with these alert types.
SendAlertTypes == {"cpu_usage", "service_down"}

\* default_thresholds of AlertManager.__init__
default_thresholds ==
    [cpu_usage |-> DefaultCpuThreshold,
     memory_usage |-> DefaultMemoryThreshold,
     disk_usage |-> DefaultDiskThreshold,
     network_in |-> DefaultNetworkInThreshold,
     network_out |-> DefaultNetworkOutThreshold]

\* The row _create_default_config adds: the default thresholds, the column
\* defaults of AlertConfig for the flags.
DefaultConfig ==
    [present |-> TRUE, thresholds |-> default_thresholds,
     enabled |-> TRUE, email_enabled |-> TRUE, slack_enabled |-> TRUE]

\* Rows the alert_config table may hold when the service starts.
InitialConfigs ==
    {NoConfig} \cup
    {[present |-> TRUE, thresholds |-> default_thresholds,
      enabled |-> e, email_enabled |-> TRUE, slack_enabled |-> TRUE] : e \in BOOLEAN}

\* Metric samples handed to check_metrics: around the cpu and memory thresholds.
MetricSamples ==
    {[cpu_usage |-> c, memory_usage |-> m, disk_usage |-> 50,
      network_in |-> 0, network_out |-> 0] :
        c \in {DefaultCpuThreshold - 1, DefaultCpuThreshold, DefaultCpuThreshold + 5},
        m \in {DefaultMemoryThreshold, DefaultMemoryThreshold + 1}}

\* alert_key = f"{alert['type']}_{alert.get('service_name', '')}"
AlertKey(alert) == <<alert.type, "_", alert.service_name>>

\* send_alert uses the bare alert type as the key.
TypeKey(alert_type) == <<alert_type>>

\* _check_cooldown(alert_type): TRUE when the key may fire.
CheckCooldownNoBoundary(lat, key, t) ==
    IF key \notin DOMAIN lat THEN TRUE ELSE t - lat[key] > CooldownPeriod

CheckCooldown(lat, key, t) ==
    IF key \notin DOMAIN lat THEN TRUE ELSE t - lat[key] >= CooldownPeriod

\* An assignment that rebuilds the dictionary with the one key.
SetTimeOnly(lat, key, t) ==
    [k \in {key} |-> t]

\* self.last_alert_time[key] = time.time()
SetTime(lat, key, t) ==
    [k \in (DOMAIN lat) \cup {key} |-> IF k = key THEN t ELSE lat[k]]

\* The class body defines _save_alert_history twice; the second definition
\* (alert_type, severity, message) is the one bound to the name, so a call
\* with another number of arguments raises TypeError.
SaveAlertHistoryArity == 3

SaveAlertHistoryAccepts(nargs) == nargs = SaveAlertHistoryArity

\* AlertSender.send_service_down_alert(service_name, details) takes two
\* arguments, send_resource_alert(resource_type, usage, threshold) three.
SenderAccepts(method, nargs) ==
    IF method = "send_service_down_alert" THEN nargs = 2 ELSE nargs = 3

\* The inline cooldown test of _send_alert: TRUE when the alert is dropped.
InCooldown(lat, key, t) ==
    key \in DOMAIN lat /\ t - lat[key] < CooldownPeriod

\* The alerts list check_metrics builds, in the order it appends.
MetricOrder == <<"cpu_usage", "memory_usage", "disk_usage", "network_in", "network_out">>

ExceedsOrEqual(value, threshold) == value >= threshold

\* metrics[x] > alert_config.x_threshold
Exceeds(value, threshold) == value > threshold

RECURSIVE MetricAlerts(_, _, _)
MetricAlerts(metrics, thresholds, i) ==
    IF i > Len(MetricOrder) THEN <<>>
    ELSE LET ty == MetricOrder[i]
             rest == MetricAlerts(metrics, thresholds, i + 1)
         IN IF Exceeds(metrics[ty], thresholds[ty])
            THEN <<[type |-> ty, service_name |-> "", value |-> metrics[ty],
                    threshold |-> thresholds[ty]]>> \o rest
            ELSE rest

\* _send_alert(alert) on the manager state st = [lat, hist, notif] at time t.
\* Any exception leaves through the except clause, which only logs.
SendAlertInternal(st, alert, t, saveok) ==
    LET key == AlertKey(alert)
        senderOk == IF alert.type = "service_down"
                    THEN SenderAccepts("send_service_down_alert", 1)
                    ELSE SenderAccepts("send_resource_alert", 3)
        sent == [st EXCEPT !.notif = Append(@, [via |-> "_send_alert", key |-> key, at |-> t])]
        saved == IF saveok
                 THEN [sent EXCEPT !.hist = Append(@, [alert_type |-> alert.type, at |-> t])]
                 ELSE sent
    IN IF InCooldown(st.lat, key, t) THEN st
       ELSE IF ~senderOk THEN st
       ELSE IF ~SaveAlertHistoryAccepts(1) THEN sent
       ELSE [saved EXCEPT !.lat = SetTime(@, key, t)]

RECURSIVE SendAlerts(_, _, _, _, _)
SendAlerts(st, alerts, i, t, saveok) ==
    IF i > Len(alerts) THEN st
    ELSE SendAlerts(SendAlertInternal(st, alerts[i], t, saveok), alerts, i + 1, t, saveok)

ManagerState == [lat |-> last_alert_time, hist |-> alert_history, notif |-> notified]

WithinLogBounds(st) ==
    Len(st.notif) <= MaxNotified /\ Len(st.hist) <= MaxHistory

\* check_metrics(metrics).  readok / createok / saveok: the outcome of the
\* store calls of _get_alert_config, _create_default_config, _save_alert_history.
CheckMetrics(metrics, readok, createok, saveok) ==
    LET found == IF readok THEN alert_config ELSE NoConfig
        used == IF found.present THEN found ELSE DefaultConfig
        raised == ~found.present /\ ~createok
        alerts == MetricAlerts(metrics, used.thresholds, 1)
        st == IF raised THEN ManagerState
              ELSE SendAlerts(ManagerState, alerts, 1, now, saveok)
    IN /\ WithinLogBounds(st)
       /\ alert_config' = IF ~found.present /\ createok /\ ~alert_config.present
                          THEN DefaultConfig ELSE alert_config
       /\ last_alert_time' = st.lat
       /\ alert_history' = st.hist
       /\ notified' = st.notif
       /\ UNCHANGED <<now, thread>>

\* check_service_status(service_name, is_healthy)
CheckServiceStatus(service_name, is_healthy, saveok) ==
    LET alert == [type |-> "service_down", service_name |-> service_name]
        st == IF is_healthy THEN ManagerState
              ELSE SendAlertInternal(ManagerState, alert, now, saveok)
    IN /\ WithinLogBounds(st)
       /\ last_alert_time' = st.lat
       /\ alert_history' = st.hist
       /\ notified' = st.notif
       /\ UNCHANGED <<now, alert_config, thread>>

Idle == [pc |-> "idle", alert_type |-> ""]

\* send_alert, line 258: the cooldown check.  A thread that finds the key in
\* cooldown returns; otherwise it goes on to the configuration and the channels.
SendAlertCheck(t, alert_type) ==
    /\ thread[t].pc = "idle"
    /\ thread' = [thread EXCEPT ![t] =
                    IF CheckCooldown(last_alert_time, TypeKey(alert_type), now)
                    THEN [pc |-> "checked", alert_type |-> alert_type]
                    ELSE Idle]
    /\ UNCHANGED <<now, last_alert_time, alert_config, alert_history, notified>>

\* send_alert, lines 263-281: read the configuration, return when there is
\* none or it is disabled, send on the enabled channels, save the history row
\* (both channel sends and the save swallow their own exceptions).
SendAlertDispatch(t, readok, saveok) ==
    LET found == IF readok THEN alert_config ELSE NoConfig
        ty == thread[t].alert_type
        admitted == found.present /\ found.enabled
    IN /\ thread[t].pc = "checked"
       /\ Len(notified) < MaxNotified
       /\ Len(alert_history) < MaxHistory
       /\ IF admitted
          THEN /\ notified' = Append(notified,
                      [via |-> "send_alert", key |-> TypeKey(ty), at |-> now])
               /\ alert_history' = IF saveok /\ SaveAlertHistoryAccepts(3)
                                   THEN Append(alert_history, [alert_type |-> ty, at |-> now])
                                   ELSE alert_history
               /\ thread' = [thread EXCEPT ![t].pc = IF SaveAlertHistoryAccepts(3)
                                                      THEN "sent" ELSE "idle"]
          ELSE /\ thread' = [thread EXCEPT ![t] = Idle]
               /\ UNCHANGED <<notified, alert_history>>
       /\ UNCHANGED <<now, last_alert_time, alert_config>>

\* send_alert, line 284: self.last_alert_time[alert_type] = time.time()
SendAlertRecord(t) ==
    /\ thread[t].pc = "sent"
    /\ last_alert_time' = SetTime(last_alert_time, TypeKey(thread[t].alert_type), now)
    /\ thread' = [thread EXCEPT ![t] = Idle]
    /\ UNCHANGED <<now, alert_config, alert_history, notified>>

\* The clock.
Tick ==
    /\ now + TimeStep <= MaxTime
    /\ now' = now + TimeStep
    /\ UNCHANGED <<last_alert_time, alert_config, alert_history, notified, thread>>

-----------------------------------------------------------------------------
(* Initial values of the subsystems *)

AlertInit ==
    /\ now = 0
    /\ last_alert_time = << >>
    /\ alert_config \in InitialConfigs
    /\ alert_history = << >>
    /\ notified = << >>
    /\ thread = [t \in Threads |-> Idle]

DispIdle == [pc |-> "idle"]
EvIdle == [by |-> "none"]
LoopsIdle == [pc |-> "idle"]
CycleIdle == [pc |-> "idle"]
StoreIdle == [pc |-> "idle"]
CfgIdle == [pc |-> "idle"]
PersistIdle == [clock |-> 0, log |-> << >>, next |-> [collect_metrics |-> 0, check_services |-> 0]]
GateIdle ==
    [cooldown_period |-> [ty \in {"cpu_usage", "service_down"} |-> CooldownPeriod],
     last_alert_time |-> << >>, clock |-> 0,
     call |-> [alert_type |-> "", admitted |-> FALSE, elapsed |-> -1, configured |-> 0]]
AdmIdle == [pc |-> "idle"]
RunnerIdle == [pc |-> "idle"]
RiskIdle == [pc |-> "idle"]
CalcIdle == [fn |-> "none"]
HealthIdle == [pc |-> "idle"]
PosIdle == [pc |-> "idle"]

ExtraInit ==
    /\ persist = PersistIdle /\ gate = GateIdle /\ adm = AdmIdle
    /\ runner = RunnerIdle /\ risk = RiskIdle /\ calc = CalcIdle
    /\ health = HealthIdle /\ pos = PosIdle

otherVars == <<disp, ev, loops, cycle, store, cfg, extraVars>>

-----------------------------------------------------------------------------
(* The alert manager *)

Init ==
    /\ AlertInit
    /\ disp = DispIdle /\ ev = EvIdle /\ loops = LoopsIdle
    /\ cycle = CycleIdle /\ store = StoreIdle /\ cfg = CfgIdle
    /\ ExtraInit

Next ==
    \/ Tick /\ UNCHANGED otherVars
    \/ \E m \in MetricSamples, r \in BOOLEAN, c \in BOOLEAN, s \in BOOLEAN :
          CheckMetrics(m, r, c, s) /\ UNCHANGED otherVars
    \/ \E sv \in Services, h \in BOOLEAN, s \in BOOLEAN :
          CheckServiceStatus(sv, h, s) /\ UNCHANGED otherVars
    \/ \E t \in Threads, ty \in SendAlertTypes :
          SendAlertCheck(t, ty) /\ UNCHANGED otherVars
    \/ \E t \in Threads, r \in BOOLEAN, s \in BOOLEAN :
          SendAlertDispatch(t, r, s) /\ UNCHANGED otherVars
    \/ \E t \in Threads : SendAlertRecord(t) /\ UNCHANGED otherVars

Spec == Init /\ [][Next]_vars

-----------------------------------------------------------------------------
(* Claims about the alert manager *)

\* Notifications of one path for one key, as pairs of positions in the log.
SameKeyPairs(via) ==
    {p \in (DOMAIN notified) \X (DOMAIN notified) :
        /\ p[1] < p[2]
        /\ notified[p[1]].via = via /\ notified[p[2]].via = via
        /\ notified[p[1]].key = notified[p[2]].key}

\* C1: cooldown deduplication.  Breaches of one key observed by the threshold
\* check less than the cooldown period apart yield one admitted alert: any two
\* notifications _send_alert hands to the sender for the same key are at least
\* the cooldown period apart.
C1_CooldownDeduplicates ==
    \A p \in SameKeyPairs("_send_alert") :
        notified[p[2]].at - notified[p[1]].at >= CooldownPeriod

\* C2: atomic admission.  Of the send_alert calls for one key that overlap
\* between the cooldown check and the timestamp write at most one is admitted:
\* any two notifications send_alert puts out for the same key are at least the
\* cooldown period apart.
C2_AtomicAdmission ==
    \A p \in SameKeyPairs("send_alert") :
        notified[p[2]].at - notified[p[1]].at >= CooldownPeriod

-----------------------------------------------------------------------------
(* The threshold comparisons: AlertManager.check_thresholds of               *)
(* monitoring-services/alert_manager.py, AlertManager.check_metrics of       *)
(* app/alert_manager.py and the alert rules of assess_risk.  Percentages and *)
(* ratios are integers here (hundredths where the code has fractions).       *)

\* self.thresholds of monitoring-services/alert_manager.py (environment defaults)
EnvThresholds == [cpu |-> DefaultCpuThreshold, memory |-> DefaultMemoryThreshold,
                  disk |-> DefaultDiskThreshold]

CheckThresholdsOrder == <<"cpu", "memory", "disk">>

\* check_thresholds(metrics): the alerts it returns, in order.
RECURSIVE CheckThresholds(_, _, _)
CheckThresholds(metrics, thresholds, i) ==
    IF i > Len(CheckThresholdsOrder) THEN <<>>
    ELSE LET ty == CheckThresholdsOrder[i]
             rest == CheckThresholds(metrics, thresholds, i + 1)
         IN IF Exceeds(metrics[ty], thresholds[ty])
            THEN <<[type |-> ty, value |-> metrics[ty], threshold |-> thresholds[ty]]>> \o rest
            ELSE rest

\* metrics.max_drawdown < -profile.max_drawdown
DrawdownExceeded(max_drawdown, limit) == max_drawdown < 0 - limit

\* The alerts list assess_risk builds from the computed drawdown, the largest
\* leverage used and the total exposure.
RiskAlerts(m, profile) ==
    (IF DrawdownExceeded(m.max_drawdown, profile.max_drawdown)
     THEN <<[type |-> "drawdown", value |-> m.max_drawdown]>> ELSE <<>>)
    \o (IF Exceeds(m.max_leverage_used, profile.max_leverage)
        THEN <<[type |-> "leverage", value |-> m.max_leverage_used]>> ELSE <<>>)
    \o (IF Exceeds(m.total_exposure, profile.max_position_size)
        THEN <<[type |-> "position_size", value |-> m.total_exposure]>> ELSE <<>>)

TypesOf(alerts) == {alerts[i].type : i \in DOMAIN alerts}

Near(x) == {x - 1, x, x + 1}

\* Threshold sets an evaluation may run against: the defaults, or all raised.
ThresholdShifts == {0, 5}

Shifted(thresholds, d) == [k \in DOMAIN thresholds |-> thresholds[k] + d]

RiskProfiles ==
    {[max_drawdown |-> d, max_leverage |-> 10, max_position_size |-> p] :
        d \in {10, 20}, p \in {1000, 5000}}

EvCheckThresholds ==
    \E d \in ThresholdShifts :
      LET th == Shifted(EnvThresholds, d) IN
      \E c \in Near(th.cpu), m \in Near(th.memory), k \in Near(th.disk) :
        LET metrics == [cpu |-> c, memory |-> m, disk |-> k] IN
        ev' = [by |-> "check_thresholds", input |-> metrics, thresholds |-> th,
               candidates |-> TypesOf(CheckThresholds(metrics, th, 1))]

EvCheckMetrics ==
    \E d \in ThresholdShifts :
      LET th == Shifted(default_thresholds, d) IN
      \E c \in Near(th.cpu_usage), m \in Near(th.memory_usage), k \in Near(th.disk_usage),
         ni \in {th.network_in, th.network_in + 1},
         no \in {th.network_out - 1, th.network_out} :
        LET metrics == [cpu_usage |-> c, memory_usage |-> m, disk_usage |-> k,
                        network_in |-> ni, network_out |-> no] IN
        ev' = [by |-> "check_metrics", input |-> metrics, thresholds |-> th,
               candidates |-> TypesOf(MetricAlerts(metrics, th, 1))]

EvAssessRisk ==
    \E profile \in RiskProfiles :
      \E dd \in Near(0 - profile.max_drawdown), lv \in Near(profile.max_leverage),
         ex \in Near(profile.max_position_size) :
        LET m == [max_drawdown |-> dd, max_leverage_used |-> lv, total_exposure |-> ex] IN
        ev' = [by |-> "assess_risk", input |-> m, thresholds |-> profile,
               candidates |-> TypesOf(RiskAlerts(m, profile))]

evOthers == <<now, last_alert_time, alert_config, alert_history, notified, thread,
              disp, loops, cycle, store, cfg, extraVars>>

InitEval ==
    /\ now = 0 /\ last_alert_time = << >> /\ alert_config = NoConfig
    /\ alert_history = << >> /\ notified = << >>
    /\ thread = [t \in Threads |-> Idle]
    /\ disp = DispIdle /\ ev = EvIdle /\ loops = LoopsIdle
    /\ cycle = CycleIdle /\ store = StoreIdle /\ cfg = CfgIdle
    /\ ExtraInit

NextEval ==
    \/ EvCheckThresholds /\ UNCHANGED evOthers
    \/ EvCheckMetrics /\ UNCHANGED evOthers
    \/ EvAssessRisk /\ UNCHANGED evOthers

SpecEval == InitEval /\ [][NextEval]_vars

\* The measured value is strictly beyond the configured limit of the rule.
StrictlyBeyond(rule) ==
    IF rule = "drawdown" THEN ev.input.max_drawdown < 0 - ev.thresholds.max_drawdown
    ELSE IF rule = "leverage" THEN ev.input.max_leverage_used > ev.thresholds.max_leverage
    ELSE IF rule = "position_size" THEN ev.input.total_exposure > ev.thresholds.max_position_size
    ELSE ev.input[rule] > ev.thresholds[rule]

RulesOf(by) ==
    IF by = "check_thresholds" THEN {"cpu", "memory", "disk"}
    ELSE IF by = "check_metrics" THEN ResourceTypes
    ELSE IF by = "assess_risk" THEN {"drawdown", "leverage", "position_size"}
    ELSE {}

-----------------------------------------------------------------------------
(* Dispatch to the channels: AlertSender.send_alert of                       *)
(* monitoring-services/alert_sender.py (kind "sender") and the channel part  *)
(* of AlertManager.send_alert, lines 273-278 (kind "manager").               *)

\* self.templates of AlertSender; "unknown" stands for any other alert type.
Templates == {"service_down", "high_resource"}

TemplateInputs == Templates \cup {"unknown"}

SendOutcomes == {"ok", "failed"}

\* What a finished call hands back to its caller: both functions end without
\* a return value.
ReturnNone == "None"

\* send_alert, line 149: not email_sent and not slack_sent
AllFailedAny(email_sent, slack_sent) == ~email_sent \/ ~slack_sent

AllFailed(email_sent, slack_sent) == ~email_sent /\ ~slack_sent

\* Where send_alert goes after the e-mail send ended with this outcome: the
\* send catches its own exception and returns False, so the chat send follows.
AfterEmailAbort(outcome) == IF outcome = "failed" THEN "finish" ELSE "slack"

AfterEmail(outcome) == "slack"

\* A channel is attempted when it is configured: the sender needs its SMTP
\* settings / webhook URL, the manager its enabled flag (and the webhook URL).
EmailConfigured(d) == IF d.kind = "sender" THEN d.smtp_set ELSE d.email_on

SlackConfigured(d) == IF d.kind = "sender" THEN d.webhook_set ELSE d.slack_on /\ d.webhook_set

\* Entry of the call.  An alert type without a template is logged and dropped.
DispStart ==
    /\ disp.pc = "idle"
    /\ \E k \in {"sender", "manager"}, tp \in TemplateInputs,
          eo \in BOOLEAN, so \in BOOLEAN, ss \in BOOLEAN, ws \in BOOLEAN :
         /\ k = "manager" => tp \in Templates
         /\ k = "sender" => eo /\ so
         /\ disp' = [pc |-> IF k = "sender" /\ tp \notin Templates THEN "done" ELSE "email",
                     kind |-> k, template |-> tp,
                     email_on |-> eo, slack_on |-> so, smtp_set |-> ss, webhook_set |-> ws,
                     email |-> "none", slack |-> "none",
                     logged_all_failed |-> FALSE, raised |-> FALSE,
                     result |-> IF k = "sender" /\ tp \notin Templates
                                THEN ReturnNone ELSE "pending"]

\* send_email / _send_email_alert
DispEmail ==
    /\ disp.pc = "email"
    /\ IF EmailConfigured(disp)
       THEN \E o \in SendOutcomes :
               disp' = [disp EXCEPT !.email = o, !.pc = AfterEmail(o)]
       ELSE disp' = [disp EXCEPT !.email = "skipped", !.pc = AfterEmail("skipped")]

\* send_slack / _send_slack_alert
DispSlack ==
    /\ disp.pc = "slack"
    /\ IF SlackConfigured(disp)
       THEN \E o \in SendOutcomes :
               disp' = [disp EXCEPT !.slack = o, !.pc = "finish"]
       ELSE disp' = [disp EXCEPT !.slack = "skipped", !.pc = "finish"]

\* The end of the call: the sender logs when no channel went through; the
\* manager has no such line.  Neither returns a value.
DispFinish ==
    /\ disp.pc = "finish"
    /\ disp' = [disp EXCEPT
                  !.pc = "done",
                  !.logged_all_failed =
                      disp.kind = "sender" /\ AllFailed(disp.email = "ok", disp.slack = "ok"),
                  !.result = ReturnNone]

DispReset ==
    /\ disp.pc = "done"
    /\ disp' = DispIdle

dispOthers == <<now, last_alert_time, alert_config, alert_history, notified, thread,
                ev, loops, cycle, store, cfg, extraVars>>

InitDispatch == InitEval

NextDispatch ==
    \/ DispStart /\ UNCHANGED dispOthers
    \/ DispEmail /\ UNCHANGED dispOthers
    \/ DispSlack /\ UNCHANGED dispOthers
    \/ DispFinish /\ UNCHANGED dispOthers
    \/ DispReset /\ UNCHANGED dispOthers

SpecDispatch == InitDispatch /\ [][NextDispatch]_vars

DispDone == disp.pc = "done" /\ disp.template \in Templates

SomeChannelOk == disp.email = "ok" \/ disp.slack = "ok"

C5_ChannelIndependence ==
    DispDone =>
        /\ EmailConfigured(disp) => disp.email \in SendOutcomes
        /\ SlackConfigured(disp) => disp.slack \in SendOutcomes

\* C5 witness: the e-mail send failed and the chat send was still made.
C5_Witness ==
    DispDone /\ disp.email = "failed" /\ disp.slack = "ok"

-----------------------------------------------------------------------------
(* One service-check cycle over the subjects: ServiceChecker._check_services *)
(* of app/service_checker.py (kind "checker") and check_services of          *)
(* monitoring-services/main.py (kind "main").                                *)

\* The services the registry lists, in the order the cycle visits them.
Subjects == <<"A", "B", "C">>

SubjectSet == {Subjects[i] : i \in DOMAIN Subjects}

\* What happens to one subject: its health request answers healthy or not, the
\* request raises, or saving its status raises.
SubjectOutcomes == {"healthy", "unhealthy", "check_raises", "persist_raises"}

\* The subject visited after one whose check or save raised: the except
\* clause inside the for loop logs and the loop goes on.
AfterSubjectFailureAbort(i) == Len(Subjects) + 1

AfterSubjectFailure(i) == i + 1

\* Start of a cycle: the registry is asked for the services; when that raises
\* the outer except clause logs and the cycle is over.
CycleStart(k, listok) ==
    /\ cycle.pc = "idle"
    /\ cycle' = [pc |-> IF listok THEN "subject" ELSE "done",
                 kind |-> k, listed |-> listok, idx |-> 1,
                 outcome |-> [s \in SubjectSet |-> "none"],
                 checked |-> {}, recorded |-> {}, alerted |-> {}]

\* The body of the for loop for the subject at idx.  In the checker
\* _check_service_health turns a raising request into "not healthy" and only
\* a raising save reaches the except clause of the loop body; in
\* check_services of main.py a raising request and a raising save both reach
\* it.  check_services also calls create_alert (which swallows its own
\* failure) for a saved status that is critical.
CycleSubject(o) ==
    LET s == Subjects[cycle.idx]
        failed == IF cycle.kind = "checker" THEN o = "persist_raises"
                  ELSE o \in {"check_raises", "persist_raises"}
        saved == IF cycle.kind = "checker" THEN o # "persist_raises"
                 ELSE o \in {"healthy", "unhealthy"}
        alert == cycle.kind = "main" /\ o = "unhealthy"
        next == IF failed THEN AfterSubjectFailure(cycle.idx) ELSE cycle.idx + 1
    IN /\ cycle.pc = "subject"
       /\ cycle' = [cycle EXCEPT
                      !.outcome[s] = o,
                      !.checked = @ \cup {s},
                      !.recorded = IF saved THEN @ \cup {s} ELSE @,
                      !.alerted = IF alert THEN @ \cup {s} ELSE @,
                      !.idx = next,
                      !.pc = IF next > Len(Subjects) THEN "done" ELSE "subject"]

\* time.sleep / asyncio.sleep, then the next cycle.
CycleEnd ==
    /\ cycle.pc = "done"
    /\ cycle' = CycleIdle

cycleOthers == <<now, last_alert_time, alert_config, alert_history, notified, thread,
                 disp, ev, loops, store, cfg, extraVars>>

InitCycle == InitEval

NextCycle ==
    \/ \E k \in {"checker", "main"}, l \in BOOLEAN : CycleStart(k, l) /\ UNCHANGED cycleOthers
    \/ \E o \in SubjectOutcomes : CycleSubject(o) /\ UNCHANGED cycleOthers
    \/ CycleEnd /\ UNCHANGED cycleOthers

SpecCycle == InitCycle /\ [][NextCycle]_vars

-----------------------------------------------------------------------------
(* The periodic loops: collect_metrics and start_alert_manager_task of       *)
(* monitoring-services/main.py, start_metrics_collector of                   *)
(* monitoring-services/metrics_collector.py.                                 *)

MaxCycles == 2       \* cycles a loop starts before the model stops it

LoopNames == {"collect_metrics", "alert_manager_task", "metrics_collector"}

\* Where a raising statement of the loop body leaves the loop.  In
\* collect_metrics and start_alert_manager_task the try statement is inside
\* the while loop: the except clause logs, sleeps and the loop goes on.  In
\* start_metrics_collector the while loop is inside the try statement: the
\* except clause is outside the loop and the function returns.
OnBodyException(l) ==
    IF l = "metrics_collector" THEN "dead" ELSE "backoff"

\* One pass through the body of the loop up to its sleep.
\*   phasefail: collecting, persisting or evaluating raised.  The two calls of
\*     start_metrics_collector (collect_system_metrics, check_service_health)
\*     catch every exception themselves, so there it does not reach the loop.
\*   sleepfail: the sleep statement raised (the interval read from the
\*     environment is no non-negative integer).
LoopBody(l, phasefail, sleepfail) ==
    LET reaches == IF l = "metrics_collector" THEN sleepfail ELSE phasefail \/ sleepfail
    IN /\ loops[l].pc = "body"
       /\ loops' = [loops EXCEPT ![l].pc = IF reaches THEN OnBodyException(l) ELSE "sleep",
                                 ![l].failed = phasefail \/ sleepfail]

\* The sleep (or the 60 s sleep of the except clause) is over: next cycle.
LoopWake(l) ==
    /\ loops[l].pc \in {"sleep", "backoff"}
    /\ loops[l].cycles < MaxCycles
    /\ loops' = [loops EXCEPT ![l].pc = "body", ![l].cycles = @ + 1]

loopOthers == <<now, last_alert_time, alert_config, alert_history, notified, thread,
                disp, ev, cycle, store, cfg, extraVars>>

InitLoops ==
    /\ now = 0 /\ last_alert_time = << >> /\ alert_config = NoConfig
    /\ alert_history = << >> /\ notified = << >>
    /\ thread = [t \in Threads |-> Idle]
    /\ disp = DispIdle /\ ev = EvIdle
    /\ loops = [l \in LoopNames |-> [pc |-> "body", cycles |-> 0, failed |-> FALSE]]
    /\ cycle = CycleIdle /\ store = StoreIdle /\ cfg = CfgIdle
    /\ ExtraInit

NextLoops ==
    \/ \E l \in LoopNames, p \in BOOLEAN, z \in BOOLEAN :
          LoopBody(l, p, z) /\ UNCHANGED loopOthers
    \/ \E l \in LoopNames : LoopWake(l) /\ UNCHANGED loopOthers

SpecLoops == InitLoops /\ [][NextLoops]_vars

\* C7: scheduler survival.  No exception raised inside a cycle terminates a
\* periodic loop: every loop is alive after every cycle, failed or not.
C7_LoopSurvives ==
    \A l \in LoopNames : loops[l].pc # "dead"

-----------------------------------------------------------------------------
(* The resolve operations: resolve_alert of monitoring-services/app/api.py   *)
(* (alert history), of risk-management-service/main.py (risk alerts) and of  *)
(* monitoring-services/main.py (monitoring alerts).                          *)

MaxClock == 2        \* latest reading of datetime.utcnow() in the model

ResolveOps == {"history", "risk", "monitoring"}
StoredIds == {1, 2}              \* rows of the table
RequestIds == {1, 2, 3}          \* 3 is the ID of no row
Resolvers == {"alice", "bob"}

HTTP_200 == 200
HTTP_404 == 404
HTTP_500 == 500

\* A row nobody resolved: resolved_by and resolved_at are NULL.
Unresolved == [resolved |-> FALSE, resolved_by |-> "", resolved_at |-> -1]

\* db.query(...).filter(id == alert_id).first() found a row.
RowFound(rows, id) == id \in DOMAIN rows

\* The status the caller gets for an ID of no row.  app/api.py raises the
\* 404 before its try statement.  The other two raise it inside the try
\* statement whose "except Exception" clause catches the HTTPException and
\* raises a 500 in its place.
NotFoundStatus(op) ==
    IF op = "history" THEN HTTP_404 ELSE HTTP_500

\* The assignments each handler makes to the row it found.  None of them
\* looks at the row's resolved fields first.
ResolvedRow(op, row, resolved_by, utcnow) ==
    CASE op = "history" ->
            [resolved |-> TRUE, resolved_by |-> resolved_by, resolved_at |-> utcnow]
      [] op = "risk" ->        \* resolved: resolved_at is no longer NULL
            [row EXCEPT !.resolved = TRUE, !.resolved_at = utcnow]
      [] op = "monitoring" ->
            [row EXCEPT !.resolved = TRUE]

\* One PUT .../resolve request, from the lookup to the response.
\*   store.first remembers, for the claims, what the first successful
\*   resolution of each row wrote; store.before is the table as the request
\*   found it.
ResolveAlert(id, resolved_by, commitok) ==
    LET op == store.op
    IN /\ store.pc \in {"ready", "answered"}
       /\ IF ~RowFound(store.rows, id)
            THEN store' = [store EXCEPT !.pc = "answered", !.before = store.rows,
                              !.req = [id |-> id, by |-> resolved_by, commitok |-> commitok],
                              !.status = NotFoundStatus(op)]
          ELSE IF ~commitok
            THEN store' = [store EXCEPT !.pc = "answered", !.before = store.rows,
                              !.req = [id |-> id, by |-> resolved_by, commitok |-> commitok],
                              !.status = HTTP_500]
          ELSE LET row == store.rows[id]
                   new == ResolvedRow(op, row, resolved_by, store.clock)
               IN store' = [store EXCEPT !.pc = "answered", !.before = store.rows,
                              !.req = [id |-> id, by |-> resolved_by, commitok |-> commitok],
                              !.status = HTTP_200,
                              !.rows[id] = new,
                              !.first[id] = IF row.resolved THEN @ ELSE new]

\* Time passes between two requests.
StoreTick ==
    /\ store.pc \in {"ready", "answered"}
    /\ store.clock < MaxClock
    /\ store' = [store EXCEPT !.clock = @ + 1]

storeOthers == <<now, last_alert_time, alert_config, alert_history, notified, thread,
                 disp, ev, loops, cycle, cfg, extraVars>>

InitResolve ==
    /\ now = 0 /\ last_alert_time = << >> /\ alert_config = NoConfig
    /\ alert_history = << >> /\ notified = << >>
    /\ thread = [t \in Threads |-> Idle]
    /\ disp = DispIdle /\ ev = EvIdle /\ loops = LoopsIdle
    /\ cycle = CycleIdle /\ cfg = CfgIdle
    /\ ExtraInit
    /\ \E op \in ResolveOps :
          store = [pc |-> "ready", op |-> op, clock |-> 0,
                   rows |-> [i \in StoredIds |-> Unresolved],
                   first |-> [i \in StoredIds |-> Unresolved],
                   before |-> [i \in StoredIds |-> Unresolved],
                   req |-> [id |-> 0, by |-> "", commitok |-> TRUE],
                   status |-> 0]

NextResolve ==
    \/ \E id \in RequestIds, by \in Resolvers, commitok \in BOOLEAN :
          ResolveAlert(id, by, commitok) /\ UNCHANGED storeOthers
    \/ StoreTick /\ UNCHANGED storeOthers

SpecResolve == InitResolve /\ [][NextResolve]_vars

\* C8: resolve is idempotent.  Every resolved row still carries the
\* resolved_by and resolved_at its first resolution wrote, however often and
\* by whomever it was resolved again, and resolving a stored row succeeds
\* unless the commit fails.
C8_ResolveIdempotent ==
    store.pc \in {"ready", "answered"} =>
        /\ \A i \in StoredIds :
              store.rows[i].resolved =>
                  /\ store.rows[i].resolved_at = store.first[i].resolved_at
                  /\ store.rows[i].resolved_by = store.first[i].resolved_by
        /\ (store.pc = "answered" /\ store.req.id \in StoredIds /\ store.req.commitok)
              => store.status = HTTP_200

\* C9: resolve on an unknown alert ID answers NotFound (404), which differs
\* from the answer to an internal failure (500), and changes no stored row;
\* for each of the three resolve operations.
C9_UnknownIdNotFound ==
    (store.pc = "answered" /\ store.req.id \notin StoredIds) =>
        /\ store.status = HTTP_404
        /\ store.status # HTTP_500
        /\ store.rows = store.before

-----------------------------------------------------------------------------
(* Writing a threshold: update_alert_config of monitoring-services/api.py    *)
(* (PUT /alerts/config/{alert_type}) and of monitoring-services/app/api.py   *)
(* (PUT /alerts/config/{config_id}, body validated by AlertConfigUpdate).    *)

ConfigOps == {"api", "app_api"}
ThresholdInputs == {-10, 0, 50, 100, 110}
AlertTypeInputs == {"cpu", "memory", "swap"}    \* "swap" is no key of thresholds
ConfigIds == {1, 2}
ConfigIdInputs == {1, 2, 3}                      \* 3 is the ID of no row

HTTP_400 == 400
HTTP_422 == 422

\* The constraint of the threshold field of the request body.  AlertConfig of
\* api.py declares "threshold: float"; AlertConfigBase of app/schemas.py
\* declares Field(None, ge=0).  Neither has an upper limit.
SchemaAccepts(op, threshold) ==
    IF op = "api" THEN TRUE ELSE threshold >= 0

\* The percentage range of the specification, for the claim.
InPercentRange(threshold) == threshold >= 0 /\ threshold <= 100

\* PUT /alerts/config/{alert_type} of api.py.  The handler builds an
\* AlertManager of its own, assigns the threshold in that object and answers
\* 200; an unknown alert type raises the 404 inside the try statement and
\* leaves as a 500.  cfg.assigned is the thresholds dictionary of the
\* handler's object when it answers.
UpdateAlertConfigByType(alert_type, threshold) ==
    /\ cfg.pc \in {"ready", "answered"}
    /\ cfg.op = "api"
    /\ LET manager == EnvThresholds
           req == [target |-> alert_type, threshold |-> threshold, commitok |-> TRUE]
       IN IF alert_type \notin DOMAIN manager
            THEN cfg' = [cfg EXCEPT !.pc = "answered", !.req = req, !.before = cfg.rows,
                            !.assigned = manager, !.status = HTTP_500, !.read = FALSE]
            ELSE cfg' = [cfg EXCEPT !.pc = "answered", !.req = req, !.before = cfg.rows,
                            !.assigned = [manager EXCEPT ![alert_type] = threshold],
                            !.status = HTTP_200, !.read = FALSE]

\* PUT /alerts/config/{config_id} of app/api.py: body validation (422 from
\* the framework), lookup (404), setattr and commit (500 and rollback when
\* the commit fails).
UpdateAlertConfigById(config_id, threshold, commitok) ==
    /\ cfg.pc \in {"ready", "answered"}
    /\ cfg.op = "app_api"
    /\ LET req == [target |-> config_id, threshold |-> threshold, commitok |-> commitok]
           answer(status, rows) ==
               [cfg EXCEPT !.pc = "answered", !.req = req, !.before = cfg.rows,
                           !.rows = rows, !.status = status, !.read = FALSE]
       IN cfg' = IF ~SchemaAccepts(cfg.op, threshold) THEN answer(HTTP_422, cfg.rows)
                 ELSE IF config_id \notin DOMAIN cfg.rows THEN answer(HTTP_404, cfg.rows)
                 ELSE IF ~commitok THEN answer(HTTP_500, cfg.rows)
                 ELSE answer(HTTP_200, [cfg.rows EXCEPT ![config_id] = threshold])

\* GET /alerts/config of api.py: the handler builds an AlertManager of its
\* own and lists the thresholds of that object, which __init__ has just read
\* from the environment.
GetAlertConfig ==
    /\ cfg.pc = "answered"
    /\ cfg.op = "api"
    /\ ~cfg.read
    /\ cfg' = [cfg EXCEPT !.read = TRUE, !.got = EnvThresholds]

\* GET /alerts/config of app/api.py without a filter: every stored row.
GetAlertConfigs ==
    /\ cfg.pc = "answered"
    /\ cfg.op = "app_api"
    /\ ~cfg.read
    /\ cfg' = [cfg EXCEPT !.read = TRUE, !.got = cfg.rows]

cfgOthers == <<now, last_alert_time, alert_config, alert_history, notified, thread,
               disp, ev, loops, cycle, store, extraVars>>

InitConfig ==
    /\ now = 0 /\ last_alert_time = << >> /\ alert_config = NoConfig
    /\ alert_history = << >> /\ notified = << >>
    /\ thread = [t \in Threads |-> Idle]
    /\ disp = DispIdle /\ ev = EvIdle /\ loops = LoopsIdle
    /\ cycle = CycleIdle /\ store = StoreIdle
    /\ ExtraInit
    /\ \E op \in ConfigOps :
          cfg = [pc |-> "ready", op |-> op,
                 rows |-> [i \in ConfigIds |-> DefaultCpuThreshold],
                 before |-> [i \in ConfigIds |-> DefaultCpuThreshold],
                 assigned |-> EnvThresholds,
                 req |-> [target |-> 0, threshold |-> 0, commitok |-> TRUE],
                 status |-> 0,
                 read |-> FALSE,
                 got |-> IF op = "api" THEN EnvThresholds
                         ELSE [i \in ConfigIds |-> DefaultCpuThreshold]]

NextConfig ==
    \/ \E a \in AlertTypeInputs, v \in ThresholdInputs :
          UpdateAlertConfigByType(a, v) /\ UNCHANGED cfgOthers
    \/ \E i \in ConfigIdInputs, v \in ThresholdInputs, commitok \in BOOLEAN :
          UpdateAlertConfigById(i, v, commitok) /\ UNCHANGED cfgOthers
    \/ GetAlertConfig /\ UNCHANGED cfgOthers
    \/ GetAlertConfigs /\ UNCHANGED cfgOthers

SpecConfig == InitConfig /\ [][NextConfig]_vars

\* C10: configuration validation.  A write of a percentage threshold below 0
\* or above 100 is answered with HTTP 400, and afterwards neither the stored
\* thresholds nor the thresholds of the manager hold the value: the stored
\* ones are what they were before the write.
C10_InvalidThresholdRejected ==
    (cfg.pc = "answered" /\ ~InPercentRange(cfg.req.threshold)) =>
        /\ cfg.status = HTTP_400
        /\ cfg.rows = cfg.before
        /\ \A k \in DOMAIN cfg.assigned : cfg.assigned[k] = EnvThresholds[k]

\* C21: configuration round trip.  The read of the alert configuration that
\* follows a threshold update answered with 200 returns the updated value
\* for the alert type or row that was written.
C21_ReadReturnsUpdate ==
    (cfg.pc = "answered" /\ cfg.read /\ cfg.status = HTTP_200) =>
        cfg.got[cfg.req.target] = cfg.req.threshold

-----------------------------------------------------------------------------
(* Alerts created without the alert manager: collect_metrics and             *)
(* check_services of monitoring-services/main.py (through create_alert) and  *)
(* assess_risk of risk-management-service/main.py.                           *)

MaxPersistClock == 120   \* the clock of this part stops here
MaxPersisted == 3        \* alert rows created before the cycles stop

MetricsInterval == 60         \* METRICS_INTERVAL default, seconds
HealthCheckInterval == 30     \* HEALTH_CHECK_INTERVAL default, seconds

\* thresholds of collect_metrics: CPU_THRESHOLD, MEMORY_THRESHOLD, DISK_THRESHOLD
CollectThresholds == [cpu |-> 80, memory |-> 80, disk |-> 80]

CollectSamples == {[cpu |-> c, memory |-> m, disk |-> 50] : c \in {80, 85}, m \in {80, 90}}

RiskUsers == {1}

\* The rows one cycle adds for its breaches, all at time t.
AlertRows(path, subject, alerts, t) ==
    [i \in DOMAIN alerts |-> [path |-> path, key |-> <<alerts[i].type, subject>>, at |-> t]]

\* One pass of the while loop of collect_metrics: every metric above its
\* threshold goes straight to create_alert, which adds and commits the row
\* (and swallows a failing commit); then the loop sleeps.
PersistCollectMetrics(metrics, createok) ==
    LET alerts == CheckThresholds(metrics, CollectThresholds, 1)
        rows == IF createok THEN AlertRows("collect_metrics", "system", alerts, persist.clock)
                ELSE << >>
    IN /\ persist.clock >= persist.next.collect_metrics
       /\ Len(persist.log) + Len(rows) <= MaxPersisted
       /\ persist' = [persist EXCEPT !.log = @ \o rows,
                                     !.next.collect_metrics = persist.clock + MetricsInterval]

\* One pass of check_services for one registered service: a status that is
\* critical goes straight to create_alert; then the loop sleeps.
PersistCheckServices(service, critical, createok) ==
    LET rows == IF critical /\ createok
                THEN <<[path |-> "check_services", key |-> <<"critical", service>>,
                        at |-> persist.clock]>>
                ELSE << >>
    IN /\ persist.clock >= persist.next.check_services
       /\ Len(persist.log) + Len(rows) <= MaxPersisted
       /\ persist' = [persist EXCEPT !.log = @ \o rows,
                                     !.next.check_services = persist.clock + HealthCheckInterval]

\* One POST /risk-assessment: every rule that is broken adds a RiskAlert row,
\* the rows are committed and each is published.
PersistAssessRisk(user_id, m, profile) ==
    LET rows == AlertRows("assess_risk", user_id, RiskAlerts(m, profile), persist.clock)
    IN /\ Len(persist.log) + Len(rows) <= MaxPersisted
       /\ rows # << >>
       /\ persist' = [persist EXCEPT !.log = @ \o rows]

PersistTick ==
    /\ persist.clock < MaxPersistClock
    /\ persist' = [persist EXCEPT !.clock = @ + HealthCheckInterval]

persistOthers == <<alertVars, disp, ev, loops, cycle, store, cfg, gate, adm, runner, risk, calc,
                    health, pos>>

InitPersist == InitEval

NextPersist ==
    \/ \E m \in CollectSamples, ok \in BOOLEAN :
          PersistCollectMetrics(m, ok) /\ UNCHANGED persistOthers
    \/ \E sv \in Services, cr \in BOOLEAN, ok \in BOOLEAN :
          PersistCheckServices(sv, cr, ok) /\ UNCHANGED persistOthers
    \/ \E u \in RiskUsers, profile \in RiskProfiles, lv \in {10, 11}, ex \in {1000, 6000} :
          PersistAssessRisk(u, [max_drawdown |-> 0, max_leverage_used |-> lv,
                                total_exposure |-> ex], profile)
          /\ UNCHANGED persistOthers
    \/ PersistTick /\ UNCHANGED persistOthers

SpecPersist == InitPersist /\ [][NextPersist]_vars

\* C11: every persisted alert passed the cooldown gate.  Two alert rows of
\* the same path for the same (type, subject) key are at least one cooldown
\* period apart, so a breach that lasts does not create a row per cycle.
C11_PersistedPassedGate ==
    \A i, j \in DOMAIN persist.log :
        (i < j /\ persist.log[i].path = persist.log[j].path
               /\ persist.log[i].key = persist.log[j].key)
            => persist.log[j].at - persist.log[i].at >= CooldownPeriod

-----------------------------------------------------------------------------
(* Disabled configuration, checked on the alert manager (Spec).              *)

C26_SentIsStamped ==
    \A i \in DOMAIN notified :
        notified[i].via = "_send_alert" =>
            /\ notified[i].key \in DOMAIN last_alert_time
            /\ last_alert_time[notified[i].key] >= notified[i].at

\* The keys whose cooldown timestamp a step writes or changes.
WrittenKeys ==
    {k \in DOMAIN last_alert_time' :
        k \notin DOMAIN last_alert_time \/ last_alert_time'[k] # last_alert_time[k]}

\* C27: cooldown keys are independent and persistent.  A step of the alert
\* manager writes the timestamp of at most one key and leaves every other
\* key as it was; no key is removed and no timestamp decreases.
C27_KeysIndependent ==
    [][/\ Cardinality(WrittenKeys) <= 1
       /\ \A k \in DOMAIN last_alert_time :
             /\ k \in DOMAIN last_alert_time'
             /\ last_alert_time'[k] >= last_alert_time[k]]_vars

C27_Witness ==
    \E k1 \in DOMAIN last_alert_time, k2 \in DOMAIN last_alert_time :
        k1 # k2 /\ last_alert_time[k1] < last_alert_time[k2]

HistoryRowsFor(n) ==
    {j \in DOMAIN alert_history :
        alert_history[j].alert_type = n.key[1] /\ alert_history[j].at = n.at}

\* C22: alert history.  An alert that _send_alert admitted and handed to the
\* sender is recorded exactly once in the alert history.
C22_AdmittedRecordedOnce ==
    \A i \in DOMAIN notified :
        notified[i].via = "_send_alert" => Cardinality(HistoryRowsFor(notified[i])) = 1

-----------------------------------------------------------------------------
(* The cooldown the alert manager applies against the cooldown_period column *)
(* of the alert type's AlertConfig row.                                      *)

MaxGateClock == 600      \* the clock of this part stops here

\* Values written to the cooldown_period column (its default is 300).
CooldownPeriods == {150, 300, 600}

\* The period _check_cooldown and _send_alert compare the elapsed time with:
\* self.cooldown_period, the constructor argument; the row of the alert type
\* is not asked.
AppliedCooldown(configured) == CooldownPeriod

\* PUT /alerts/config/{config_id} with a cooldown_period: setattr and commit.
GateConfigure(alert_type, period) ==
    /\ gate.cooldown_period[alert_type] # period
    /\ gate' = [gate EXCEPT !.cooldown_period[alert_type] = period]

\* send_alert(alert_type, ...) by one caller, for an enabled configuration:
\* cooldown check, channels, history, timestamp.
GateSendAlert(alert_type) ==
    LET key == TypeKey(alert_type)
        lat == gate.last_alert_time
        configured == gate.cooldown_period[alert_type]
        elapsed == IF key \in DOMAIN lat THEN gate.clock - lat[key] ELSE -1
        admitted == IF key \notin DOMAIN lat THEN TRUE
                    ELSE elapsed >= AppliedCooldown(configured)
    IN gate' = [gate EXCEPT
                  !.last_alert_time = IF admitted THEN SetTime(lat, key, gate.clock) ELSE lat,
                  !.call = [alert_type |-> alert_type, admitted |-> admitted,
                            elapsed |-> elapsed, configured |-> configured]]

GateTick ==
    /\ gate.clock + TimeStep <= MaxGateClock
    /\ gate' = [gate EXCEPT !.clock = @ + TimeStep]

gateOthers == <<alertVars, disp, ev, loops, cycle, store, cfg, persist, adm, runner, risk, calc,
                 health, pos>>

InitGate == InitEval

NextGate ==
    \/ \E ty \in SendAlertTypes, p \in CooldownPeriods :
          GateConfigure(ty, p) /\ UNCHANGED gateOthers
    \/ \E ty \in SendAlertTypes : GateSendAlert(ty) /\ UNCHANGED gateOthers
    \/ GateTick /\ UNCHANGED gateOthers

SpecGate == InitGate /\ [][NextGate]_vars

\* C13: the cooldown applied to an alert is the one configured for its type.
\* A send_alert for a type that fired before is admitted exactly when the
\* time since then is at least the cooldown_period of that type's row.
C13_CooldownFromConfig ==
    gate.call.elapsed >= 0 =>
        (gate.call.admitted <=> gate.call.elapsed >= gate.call.configured)

-----------------------------------------------------------------------------
(* One admitted alert from the channel sends to the cooldown timestamp:      *)
(* AlertManager._send_alert, lines 136-150 (with AlertSender.send_alert),    *)
(* and AlertManager.send_alert, lines 273-284.                               *)

AdmPaths == {"_send_alert", "send_alert"}
AdmAlertTypes == {"cpu_usage", "service_down"}

\* Number of arguments each path passes to self._save_alert_history.
SaveArgs(path) == IF path = "_send_alert" THEN 1 ELSE 3

\* The alert passed the cooldown test of its path.
AdmStart(path, alert_type) ==
    /\ adm.pc = "idle"
    /\ adm' = [pc |-> "send", path |-> path, alert_type |-> alert_type,
               email |-> "none", slack |-> "none",
               email_attempts |-> 0, slack_attempts |-> 0,
               logged_all_failed |-> FALSE, raised |-> FALSE,
               store_up |-> TRUE, persisted |-> FALSE, resolved |-> FALSE,
               stamped |-> FALSE]

\* The channel sends.  _send_alert calls send_service_down_alert with one
\* argument (TypeError, caught by the except clause of _send_alert) or
\* send_resource_alert, whose send_alert tries e-mail, then chat, and logs
\* when both failed.  send_alert calls its two helpers, each of which logs
\* its own failure.
AdmSend(eo, so) ==
    LET senderOk == IF adm.path = "send_alert" THEN TRUE
                    ELSE IF adm.alert_type = "service_down"
                         THEN SenderAccepts("send_service_down_alert", 1)
                         ELSE SenderAccepts("send_resource_alert", 3)
    IN /\ adm.pc = "send"
       /\ IF ~senderOk
            THEN adm' = [adm EXCEPT !.pc = "done", !.raised = TRUE]
            ELSE adm' = [adm EXCEPT !.pc = "save",
                            !.email = eo, !.slack = so,
                            !.email_attempts = @ + 1, !.slack_attempts = @ + 1,
                            !.logged_all_failed = AllFailed(eo = "ok", so = "ok")]

\* self._save_alert_history(...): a call with the wrong number of arguments
\* raises TypeError into the except clause of the path; otherwise the row is
\* added and committed, and a failing commit is logged and swallowed.
AdmSave(saveok) ==
    /\ adm.pc = "save"
    /\ IF ~SaveAlertHistoryAccepts(SaveArgs(adm.path))
         THEN adm' = [adm EXCEPT !.pc = "done", !.raised = TRUE, !.store_up = saveok]
         ELSE adm' = [adm EXCEPT !.pc = "stamp", !.store_up = saveok, !.persisted = saveok]

\* self.last_alert_time[key] = time.time()
AdmStamp ==
    /\ adm.pc = "stamp"
    /\ adm' = [adm EXCEPT !.pc = "done", !.stamped = TRUE]

AdmReset ==
    /\ adm.pc = "done"
    /\ adm' = AdmIdle

-----------------------------------------------------------------------------
(* The risk metrics of risk-management-service/main.py, lines 119-146.       *)
(* A return is an integer number of halves (k stands for k/2), so every      *)
(* value, sum and product below is exact in binary floating point as well;   *)
(* a ratio is kept as its sign and the fraction of its square.  numpy        *)
(* divides by zero without raising: x/0 is inf, -inf or nan.                 *)

MaxSeriesLen == 3        \* longest return series

ReturnValues == {-4, -2, -1, 0, 1, 2}      \* -200 %, -100 %, -50 %, 0, 50 %, 100 %

ReturnSeries == UNION {[1..n -> ReturnValues] : n \in 0..MaxSeriesLen}

NaN == [kind |-> "nan"]
PosInf == [kind |-> "inf"]
NegInf == [kind |-> "-inf"]
Num(sign, sq_num, sq_den) == [kind |-> "num", sign |-> sign, sq_num |-> sq_num, sq_den |-> sq_den]
Zero == Num(0, 0, 1)

Sign(x) == IF x > 0 THEN 1 ELSE IF x < 0 THEN -1 ELSE 0

RECURSIVE Sum(_)
Sum(xs) == IF xs = << >> THEN 0 ELSE Head(xs) + Sum(Tail(xs))

RECURSIVE SumSq(_)
SumSq(xs) == IF xs = << >> THEN 0 ELSE Head(xs) * Head(xs) + SumSq(Tail(xs))

\* np.array(returns) - risk_free_rate
Excess(returns, risk_free_rate) == [i \in DOMAIN returns |-> returns[i] - risk_free_rate]

\* n^2 times the population variance np.std squares: n * sum(x^2) - sum(x)^2
VarTimesN2(xs) == Len(xs) * SumSq(xs) - Sum(xs) * Sum(xs)

\* mean / 0.0 in numpy
DivideByZero(sum) == IF sum = 0 THEN NaN ELSE IF sum > 0 THEN PosInf ELSE NegInf

\* What the function returns when the standard deviation is 0.
ZeroStdSharpe(sum) == DivideByZero(sum)

\* calculate_sharpe_ratio: np.mean(excess) / np.std(excess).  The mean and
\* the deviation of an empty array are nan.
SharpeRatio(returns, risk_free_rate) ==
    LET e == Excess(returns, risk_free_rate)
        n == Len(e)
    IN IF n = 0 THEN NaN
       ELSE IF VarTimesN2(e) = 0 THEN ZeroStdSharpe(Sum(e))
       ELSE Num(Sign(Sum(e)), Sum(e) * Sum(e), VarTimesN2(e))

IsNegative(x) == x < 0

\* What the function returns when no excess return is negative.
NoDownside(sum) == Zero

\* calculate_sortino_ratio: 0 without downside returns, else
\* np.mean(excess) / np.std(downside).
SortinoRatio(returns, risk_free_rate) ==
    LET e == Excess(returns, risk_free_rate)
        n == Len(e)
        down == SelectSeq(e, IsNegative)
        m == Len(down)
    IN IF m = 0 THEN NoDownside(Sum(e))
       ELSE IF VarTimesN2(down) = 0 THEN DivideByZero(Sum(e))
       ELSE Num(Sign(Sum(e)), Sum(e) * Sum(e) * m * m, n * n * VarTimesN2(down))

RECURSIVE Pow2(_)
Pow2(n) == IF n = 0 THEN 1 ELSE 2 * Pow2(n - 1)

\* np.cumprod(1 + returns)[i], times 2^Len(returns): 1 + k/2 = (2 + k)/2.
RECURSIVE Cumulative(_, _)
Cumulative(returns, i) ==
    IF i = 0 THEN Pow2(Len(returns))
    ELSE (Cumulative(returns, i - 1) * (2 + returns[i])) \div 2

\* np.maximum.accumulate(cumulative)[i], same scale.
RECURSIVE RunningMax(_, _)
RunningMax(returns, i) ==
    IF i = 1 THEN Cumulative(returns, 1)
    ELSE LET m == RunningMax(returns, i - 1)
             c == Cumulative(returns, i)
         IN IF c > m THEN c ELSE m

\* (cumulative - running_max) / running_max as a fraction with a positive
\* denominator; running_max # 0.
DrawdownAtFlipped(c, m) ==
    IF m > 0 THEN [num |-> m - c, den |-> m] ELSE [num |-> c - m, den |-> 0 - m]

DrawdownAt(c, m) ==
    IF m > 0 THEN [num |-> c - m, den |-> m] ELSE [num |-> m - c, den |-> 0 - m]

FracLess(a, b) == a.num * b.den < b.num * a.den

\* calculate_max_drawdown.  np.min of an empty array raises ValueError; a
\* running maximum of 0 makes 0/0 = nan, and np.min of an array with a nan
\* is nan.
MaxDrawdown(returns) ==
    LET n == Len(returns)
        dd(i) == DrawdownAt(Cumulative(returns, i), RunningMax(returns, i))
    IN IF n = 0 THEN [kind |-> "ValueError"]
       ELSE IF \E i \in 1..n : RunningMax(returns, i) = 0 THEN NaN
       ELSE LET k == CHOOSE i \in 1..n : \A j \in 1..n : ~FracLess(dd(j), dd(i))
            IN [kind |-> "num", num |-> dd(k).num, den |-> dd(k).den]

\* calculate_var on an empty series: np.percentile of an empty array is nan
\* in one numpy release and an IndexError in another; on anything else it is
\* a number of the series' range (not modelled further).
VarOutcomes(returns) ==
    IF Len(returns) = 0 THEN {[kind |-> "nan"], [kind |-> "IndexError"]}
    ELSE {[kind |-> "percentile"]}

CalcVar(returns, outcome) ==
    /\ calc.fn = "none"
    /\ outcome \in VarOutcomes(returns)
    /\ calc' = [fn |-> "calculate_var", returns |-> returns, result |-> outcome]

CalcSharpeRatio(returns) ==
    /\ calc.fn = "none"
    /\ calc' = [fn |-> "calculate_sharpe_ratio", returns |-> returns,
                result |-> SharpeRatio(returns, 0)]

CalcSortinoRatio(returns) ==
    /\ calc.fn = "none"
    /\ calc' = [fn |-> "calculate_sortino_ratio", returns |-> returns,
                result |-> SortinoRatio(returns, 0)]

CalcMaxDrawdown(returns) ==
    /\ calc.fn = "none"
    /\ calc' = [fn |-> "calculate_max_drawdown", returns |-> returns,
                result |-> MaxDrawdown(returns)]

\* The caller has the result; the next call may come.
CalcReturn ==
    /\ calc.fn # "none"
    /\ calc' = CalcIdle

calcOthers == <<alertVars, disp, ev, loops, cycle, store, cfg, persist, gate, adm, runner, risk,
                 health, pos>>

InitCalc == InitEval

NextCalc ==
    \/ \E r \in ReturnSeries, o \in {[kind |-> "nan"], [kind |-> "IndexError"], [kind |-> "percentile"]} :
          CalcVar(r, o) /\ UNCHANGED calcOthers
    \/ \E r \in ReturnSeries : CalcSharpeRatio(r) /\ UNCHANGED calcOthers
    \/ \E r \in ReturnSeries : CalcSortinoRatio(r) /\ UNCHANGED calcOthers
    \/ \E r \in ReturnSeries : CalcMaxDrawdown(r) /\ UNCHANGED calcOthers
    \/ CalcReturn /\ UNCHANGED calcOthers

SpecCalc == InitCalc /\ [][NextCalc]_vars

IsConstant(xs) == \A i, j \in DOMAIN xs : xs[i] = xs[j]

IsExactlyZero(res) == res.kind = "num" /\ res.sign = 0

\* C19: zero-risk series.  The Sharpe ratio of a non-empty constant series
\* is exactly 0, and the Sortino ratio of a series without a negative excess
\* return is exactly 0: a number, not nan, not infinite.
C19_ZeroRiskSeries ==
    /\ (calc.fn = "calculate_sharpe_ratio" /\ calc.returns # << >> /\ IsConstant(calc.returns))
          => IsExactlyZero(calc.result)
    /\ (calc.fn = "calculate_sortino_ratio" /\ \A i \in DOMAIN calc.returns : calc.returns[i] >= 0)
          => IsExactlyZero(calc.result)

\* C20: the maximum drawdown of a non-empty series is the least of the
\* (cumulative - runningMax) / runningMax; it is never positive, it is 0
\* when no return is negative, and it is below 0 when the series has a
\* negative return right after a positive cumulative value of the series.
C20_MaxDrawdown ==
    (calc.fn = "calculate_max_drawdown" /\ calc.returns # << >>) =>
        LET r == calc.returns
            res == calc.result
            n == Len(r)
            dd(i) == [num |-> Cumulative(r, i) - RunningMax(r, i), den |-> RunningMax(r, i)]
        IN /\ res.kind \in {"num", "nan"}
           /\ res.kind = "num" =>
                 /\ res.num <= 0
                 /\ \A i \in 1..n : res.num * dd(i).den * dd(i).den <= dd(i).num * dd(i).den * res.den
                 /\ \E i \in 1..n : res.num * dd(i).den = dd(i).num * res.den
           /\ (\A i \in 1..n : r[i] >= 0) => (res.kind = "num" /\ res.num = 0)
           /\ (\E i \in 2..n : r[i] < 0 /\ Cumulative(r, i - 1) > 0)
                 => (res.kind = "num" /\ res.num < 0)

\* C20 witness: the drawdown of (50 %, -50 %, 50 %) is -1/2.
C20_Witness ==
    /\ calc.fn = "calculate_max_drawdown"
    /\ calc.returns = <<1, -1, 1>>
    /\ calc.result.kind = "num"
    /\ calc.result.num * 2 = 0 - calc.result.den

-----------------------------------------------------------------------------
(* POST /risk-assessment: assess_risk of risk-management-service/main.py.    *)

\* Return series of the positions of a user; << >>: no open position.
RiskReturnSeries == UNION {[1..n -> {-1, 0, 1}] : n \in 0..2}

\* max_drawdown of the profile, in hundredths.
RiskProfileChoices == {p \in RiskProfiles : p.max_position_size = 1000}

\* The computed drawdown in hundredths, rounded down (the comparison with a
\* whole number of hundredths is not changed by that); nan compares False
\* with everything.
DrawdownHundredths(res) ==
    IF res.kind = "num" THEN (res.num * 100) \div res.den ELSE 0

\* Lines 252-259: the positions are fetched and the profile is read; a
\* failing request, and the 404 raised for a missing profile, end in the
\* except clause of the handler: 500.
RiskStart(returns, fetchok, profile_found, profile, lv, ex) ==
    /\ risk.pc = "idle"
    /\ risk' = [pc |-> IF fetchok /\ profile_found THEN "metrics" ELSE "done",
                returns |-> returns, fetched |-> fetchok, profile_found |-> profile_found,
                profile |-> profile, max_leverage_used |-> lv, total_exposure |-> ex,
                var |-> [kind |-> "none"], max_drawdown |-> [kind |-> "none"],
                metrics_stored |-> FALSE,
                alerts_due |-> {}, alerts_stored |-> {}, published |-> {},
                status |-> IF fetchok /\ profile_found THEN 0 ELSE HTTP_500]

\* Lines 282-293: the six metric functions are called, the snapshot is added
\* and committed.  An exception of a metric function or of the commit ends
\* in the except clause: 500.
RiskMetricsCommit(var, commitok) ==
    LET dd == MaxDrawdown(risk.returns)
        raises == var.kind = "IndexError" \/ dd.kind = "ValueError"
        stored == ~raises /\ commitok
    IN /\ risk.pc = "metrics"
       /\ var \in VarOutcomes(risk.returns)
       /\ risk' = [risk EXCEPT !.pc = IF stored THEN "alerts" ELSE "done",
                               !.var = var, !.max_drawdown = dd,
                               !.metrics_stored = stored,
                               !.status = IF stored THEN 0 ELSE HTTP_500]

\* Lines 295-334: the three rules; the alerts are added and committed.
RiskAlertsCommit(commitok) ==
    LET m == [max_drawdown |-> DrawdownHundredths(risk.max_drawdown),
              max_leverage_used |-> risk.max_leverage_used,
              total_exposure |-> risk.total_exposure]
        due == TypesOf(RiskAlerts(m, risk.profile))
    IN /\ risk.pc = "alerts"
       /\ risk' = [risk EXCEPT !.pc = IF commitok THEN "publish" ELSE "done",
                               !.alerts_due = due,
                               !.alerts_stored = IF commitok THEN due ELSE {},
                               !.status = IF commitok THEN 0 ELSE HTTP_500]

\* The same with a publish_risk_alert that lets its exception through to
\* the except clause of the handler.
RiskPublishRaises(delivered) ==
    /\ risk.pc = "publish"
    /\ delivered \subseteq risk.alerts_stored
    /\ risk' = [risk EXCEPT !.pc = "done",
                            !.published = delivered,
                            !.status = IF delivered = risk.alerts_stored
                                       THEN HTTP_200 ELSE HTTP_500]

\* Lines 336-345: publish_risk_alert is called for each alert of the list
\* and swallows its own failure, so any part of the alerts is delivered;
\* then the handler answers.
RiskPublish(delivered) ==
    /\ risk.pc = "publish"
    /\ delivered \subseteq risk.alerts_stored
    /\ risk' = [risk EXCEPT !.pc = "done",
                            !.published = delivered,
                            !.status = HTTP_200]

RiskReset ==
    /\ risk.pc = "done"
    /\ risk' = RiskIdle

riskOthers == <<alertVars, disp, ev, loops, cycle, store, cfg, persist, gate, adm, runner, calc,
                 health, pos>>

NextRisk ==
    \/ \E r \in RiskReturnSeries, f \in BOOLEAN, pf \in BOOLEAN,
          p \in RiskProfileChoices, lv \in {10, 11}, ex \in {1000, 1001} :
          RiskStart(r, f, pf, p, lv, ex) /\ UNCHANGED riskOthers
    \/ \E v \in {[kind |-> "nan"], [kind |-> "IndexError"], [kind |-> "percentile"]},
          ok \in BOOLEAN :
          RiskMetricsCommit(v, ok) /\ UNCHANGED riskOthers
    \/ \E ok \in BOOLEAN : RiskAlertsCommit(ok) /\ UNCHANGED riskOthers
    \/ \E delivered \in SUBSET {"drawdown", "leverage", "position_size"} :
          RiskPublish(delivered) /\ UNCHANGED riskOthers
    \/ RiskReset /\ UNCHANGED riskOthers

SpecRisk == InitEval /\ [][NextRisk]_vars

\* C18: empty return series.  An assessment of a user without positions,
\* whose positions and profile were read, skips the metrics: no snapshot is
\* stored, no alert is created, the VaR call fails as InsufficientData, and
\* the request does not end as an internal failure.
C18_EmptySeriesSkipped ==
    (risk.pc = "done" /\ risk.returns = << >> /\ risk.fetched /\ risk.profile_found) =>
        /\ ~risk.metrics_stored
        /\ risk.alerts_stored = {} /\ risk.published = {}
        /\ risk.var.kind = "InsufficientData"
        /\ risk.status # HTTP_500

-----------------------------------------------------------------------------
(* The writers of alert state together *)

admOthers == <<alertVars, disp, ev, loops, cycle, store, cfg, persist, gate, runner, risk, calc,
                health, pos>>

InitWrites == InitEval

\* The writers of alert state: the alert manager's two send paths and the
\* risk assessment.
NextWrites ==
    \/ NextRisk
    \/ \E path \in AdmPaths, ty \in AdmAlertTypes : AdmStart(path, ty) /\ UNCHANGED admOthers
    \/ \E eo \in SendOutcomes, so \in SendOutcomes : AdmSend(eo, so) /\ UNCHANGED admOthers
    \/ \E ok \in BOOLEAN : AdmSave(ok) /\ UNCHANGED admOthers
    \/ AdmStamp /\ UNCHANGED admOthers
    \/ AdmReset /\ UNCHANGED admOthers

SpecWrites == InitWrites /\ [][NextWrites]_vars

AdmAllChannelsFailed == adm.email = "failed" /\ adm.slack = "failed"

\* C14: all-channels-failed handling.  When every channel send of an
\* admitted alert failed and the store takes the row, the alert is in the
\* history and unresolved when the call is over, and each channel was tried
\* once and not again.
C14_AllFailedStillPersisted ==
    (adm.pc = "done" /\ AdmAllChannelsFailed /\ adm.store_up) =>
        /\ adm.persisted /\ ~adm.resolved
        /\ adm.email_attempts = 1 /\ adm.slack_attempts = 1

\* C23: boolean service-health alerts.  When _send_alert is over for a
\* service_down alert that was outside its cooldown, the notification was
\* handed to the sender (each channel was tried) and, the store taking the
\* row, the history record is saved.
C23_ServiceDownFires ==
    (adm.pc = "done" /\ adm.path = "_send_alert" /\ adm.alert_type = "service_down") =>
        /\ adm.email_attempts = 1 /\ adm.slack_attempts = 1
        /\ adm.store_up => adm.persisted

\* C16: no half-written alert.  When the call is over, an alert for which a
\* notification went out on some channel is persisted; when a risk
\* assessment is over, every alert it published is stored, and if its
\* metrics snapshot is stored so are all the alerts its rules produced.
C16_NoHalfWrittenAlert ==
    /\ (adm.pc = "done" /\ (adm.email = "ok" \/ adm.slack = "ok")) => adm.persisted
    /\ risk.pc = "done" =>
          /\ risk.published \subseteq risk.alerts_stored
          /\ risk.metrics_stored => risk.alerts_stored = risk.alerts_due

-----------------------------------------------------------------------------
(* Start and stop of a loop object: ServiceChecker of app/service_checker.py *)
(* (kind "checker") and MetricsCollector of app/metrics_collector.py (kind   *)
(* "collector").  start() and stop() are plain methods without a lock, so    *)
(* two callers interleave at every statement.                                *)

MaxThreads == 2      \* loop threads an object creates in the model

RunnerKinds == {"checker", "collector"}
Callers == {"c1", "c2"}
ThreadIds == 1..MaxThreads

\* last: how the caller's last call ended; live: the loop threads alive then.
CallerIdle == [pc |-> "idle", target |-> 0, last |-> "none", live |-> 0]

Alive(pc) == pc \in {"test", "cycle", "sleep"}

LiveThreads == {t \in ThreadIds : Alive(runner.loops[t])}

\* __init__: not running, no thread.
RunnerCreate(kind) ==
    /\ runner.pc = "idle"
    /\ runner' = [pc |-> "created", kind |-> kind, running |-> FALSE, thread |-> 0,
                  port_bound |-> FALSE,
                  loops |-> [t \in ThreadIds |-> "unborn"],
                  callers |-> [c \in Callers |-> CallerIdle]]

\* start(), the test of the running flag: return when it is set.
StartCheck(c) ==
    /\ runner.pc = "created"
    /\ runner.callers[c].pc = "idle"
    /\ runner' = [runner EXCEPT !.callers[c] =
                     IF runner.running THEN [CallerIdle EXCEPT !.last = "already_running"]
                     ELSE [pc |-> "starting", target |-> 0, last |-> "none", live |-> 0]]

\* start(), after the test.  The checker builds its Consul client (which may
\* raise); the collector calls start_http_server, whose listening socket
\* stays bound for the life of the process, so a second call on the port
\* raises OSError.  Then: flag set, thread created and started.
StartSpawn(c, clientok) ==
    LET raises == IF runner.kind = "checker" THEN ~clientok ELSE runner.port_bound
        t == CHOOSE x \in ThreadIds : runner.loops[x] = "unborn"
    IN /\ runner.pc = "created"
       /\ runner.callers[c].pc = "starting"
       /\ IF raises
            THEN runner' = [runner EXCEPT !.callers[c] =
                               [CallerIdle EXCEPT !.last = "raised",
                                                  !.live = Cardinality(LiveThreads)]]
            ELSE /\ \E x \in ThreadIds : runner.loops[x] = "unborn"
                 /\ runner' = [runner EXCEPT
                                 !.port_bound = (runner.kind = "collector") \/ @,
                                 !.running = TRUE,
                                 !.thread = t,
                                 !.loops[t] = "test",
                                 !.callers[c] = [CallerIdle EXCEPT !.last = "started"]]

\* stop(): the collector returns when the flag is not set; the flag is
\* cleared and the caller joins self.thread when there is one.
StopRequest(c) ==
    /\ runner.pc = "created"
    /\ runner.callers[c].pc = "idle"
    /\ IF runner.kind = "collector" /\ ~runner.running
         THEN runner' = [runner EXCEPT !.callers[c] = [CallerIdle EXCEPT !.last = "not_running"]]
       ELSE IF runner.thread = 0
         THEN runner' = [runner EXCEPT !.running = FALSE,
                                       !.callers[c] = [CallerIdle EXCEPT !.last = "stopped"]]
       ELSE runner' = [runner EXCEPT !.running = FALSE,
                                     !.callers[c] = [pc |-> "joining", target |-> runner.thread,
                                                     last |-> "none", live |-> 0]]

\* thread.join() returns when the thread has ended.
StopJoin(c) ==
    /\ runner.pc = "created"
    /\ runner.callers[c].pc = "joining"
    /\ runner.loops[runner.callers[c].target] = "exited"
    /\ runner' = [runner EXCEPT !.callers[c] =
                     [pc |-> "idle", target |-> runner.callers[c].target, last |-> "stopped",
                      live |-> Cardinality(LiveThreads)]]

\* while self.running:
LoopTest(t) ==
    /\ runner.pc = "created"
    /\ runner.loops[t] = "test"
    /\ runner' = [runner EXCEPT !.loops[t] = IF runner.running THEN "cycle" ELSE "exited"]

\* The body of the loop up to its sleep; its failures are caught inside.
LoopCycle(t) ==
    /\ runner.pc = "created"
    /\ runner.loops[t] = "cycle"
    /\ runner' = [runner EXCEPT !.loops[t] = "sleep"]

\* time.sleep(interval) is over.
LoopSleep(t) ==
    /\ runner.pc = "created"
    /\ runner.loops[t] = "sleep"
    /\ runner' = [runner EXCEPT !.loops[t] = "test"]

runnerOthers == <<alertVars, disp, ev, loops, cycle, store, cfg, persist, gate, adm, risk, calc,
                   health, pos>>

InitRunner == InitEval

NextRunner ==
    \/ \E k \in RunnerKinds : RunnerCreate(k) /\ UNCHANGED runnerOthers
    \/ \E c \in Callers : StartCheck(c) /\ UNCHANGED runnerOthers
    \/ \E c \in Callers, ok \in BOOLEAN : StartSpawn(c, ok) /\ UNCHANGED runnerOthers
    \/ \E c \in Callers : StopRequest(c) /\ UNCHANGED runnerOthers
    \/ \E c \in Callers : StopJoin(c) /\ UNCHANGED runnerOthers
    \/ \E t \in ThreadIds : LoopTest(t) /\ UNCHANGED runnerOthers
    \/ \E t \in ThreadIds : LoopCycle(t) /\ UNCHANGED runnerOthers
    \/ \E t \in ThreadIds : LoopSleep(t) /\ UNCHANGED runnerOthers

SpecRunner == InitRunner /\ [][NextRunner]_vars

\* C15: no overlapping cycles.  An object never has more than one loop
\* thread alive, however start() is called.
C15_OneLoopThread ==
    runner.pc = "created" => Cardinality(LiveThreads) <= 1

\* C17: shutdown.  A stop() that returned had its loop thread ended, and a
\* start() of a collector that found the object stopped, with no loop
\* thread alive, starts the loop again: it does not raise.
C17_StopThenRestart ==
    runner.pc = "created" =>
        \A c \in Callers :
            /\ (runner.callers[c].last = "stopped" /\ runner.callers[c].target # 0)
                  => runner.loops[runner.callers[c].target] = "exited"
            /\ runner.kind = "collector"
                  => ~(runner.callers[c].last = "raised" /\ runner.callers[c].live = 0)

-----------------------------------------------------------------------------
(* HealthCheck of monitoring-services/health_check.py: the retry loop of     *)
(* check_all_services, record_failure, should_alert and send_alert.          *)

MaxHealthClock == 500    \* no cycle starts after this time

RetryCount == 3          \* RETRY_COUNT default
RetryDelay == 5          \* RETRY_DELAY default, seconds
FailureThreshold == 3    \* FAILURE_THRESHOLD default
FailureWindow == 300     \* FAILURE_WINDOW default, seconds
CheckInterval == 60      \* CHECK_INTERVAL default, seconds

\* Two of the five services of check_all_services, in the order of the dict.
HealthServices == <<"api", "consul">>

\* Time a cycle takes beyond its sleeps: the requests have no timeout.
HealthDelays == {0, 240}

\* The list comprehension without its condition: every failure is kept.
RecentFailuresAll(times, t) == times

\* [t for t in failure_history[service] if t > cutoff]
RecentFailures(times, t) ==
    SelectSeq(times, LAMBDA x : x > t - FailureWindow)

\* record_failure(service) at time t
RecordFailure(history, service, t) ==
    LET old == IF service \in DOMAIN history THEN history[service] ELSE << >>
        kept == RecentFailures(Append(old, t), t)
    IN [k \in (DOMAIN history) \cup {service} |-> IF k = service THEN kept ELSE history[k]]

\* should_alert(service)
ShouldAlert(history, service) ==
    service \in DOMAIN history /\ Len(history[service]) >= FailureThreshold

\* A recovery that clears the whole dictionary.
RecoverAll(history, service) == << >>

\* del self.failure_history[service]
Recover(history, service) ==
    [k \in (DOMAIN history) \ {service} |-> history[k]]

\* One call of check_func in the retry loop (lines 130-134): a success ends
\* the loop, a failure sleeps retry_delay and the loop ends after
\* retry_count calls.
HealthAttempt(ok) ==
    /\ health.pc = "attempt"
    /\ LET tries == Append(health.tries, ok)
       IN health' = [health EXCEPT
                        !.tries = tries,
                        !.status = ok,
                        !.clock = IF ok THEN @ ELSE @ + RetryDelay,
                        !.pc = IF ok \/ Len(tries) >= RetryCount THEN "send" ELSE "attempt"]

\* self.send_alert(service_name, status), line 136, and the step to the next
\* service.  since: the failures recorded for the service since it was last
\* seen healthy; last: what this call was given and what it decided.
HealthSendAlert ==
    /\ health.pc = "send"
    /\ LET service == HealthServices[health.i]
           recorded == RecordFailure(health.failure_history, service, health.clock)
           history == IF health.status THEN Recover(health.failure_history, service)
                      ELSE recorded
           alerted == ~health.status /\ ShouldAlert(recorded, service)
       IN health' = [health EXCEPT
                        !.failure_history = history,
                        !.since[service] = IF health.status THEN << >>
                                           ELSE Append(@, health.clock),
                        !.last = [service |-> service, status |-> health.status,
                                  tries |-> health.tries, alerted |-> alerted,
                                  at |-> health.clock, before |-> health.failure_history],
                        !.tries = << >>,
                        !.i = IF health.i < Len(HealthServices) THEN @ + 1 ELSE 1,
                        !.pc = IF health.i < Len(HealthServices) THEN "attempt" ELSE "sleep"]

\* time.sleep(self.check_interval) of run, and the next cycle.
HealthSleep(delay) ==
    /\ health.pc = "sleep"
    /\ health.clock + CheckInterval + delay <= MaxHealthClock
    /\ health' = [health EXCEPT !.clock = @ + CheckInterval + delay, !.pc = "attempt"]

healthOthers == <<alertVars, disp, ev, loops, cycle, store, cfg,
                  persist, gate, adm, runner, risk, calc, pos>>

InitHealth ==
    /\ AlertInit /\ alert_config = NoConfig
    /\ disp = DispIdle /\ ev = EvIdle /\ loops = LoopsIdle
    /\ cycle = CycleIdle /\ store = StoreIdle /\ cfg = CfgIdle
    /\ persist = PersistIdle /\ gate = GateIdle /\ adm = AdmIdle
    /\ runner = RunnerIdle /\ risk = RiskIdle /\ calc = CalcIdle /\ pos = PosIdle
    /\ health = [pc |-> "attempt", clock |-> 0, i |-> 1, tries |-> << >>,
                 status |-> FALSE, failure_history |-> << >>,
                 since |-> [s \in {HealthServices[k] : k \in DOMAIN HealthServices} |-> << >>],
                 last |-> [service |-> "", status |-> TRUE, tries |-> << >>,
                           alerted |-> FALSE, at |-> 0, before |-> << >>]]

NextHealth ==
    \/ \E ok \in BOOLEAN : HealthAttempt(ok) /\ UNCHANGED healthOthers
    \/ HealthSendAlert /\ UNCHANGED healthOthers
    \/ \E d \in HealthDelays : HealthSleep(d) /\ UNCHANGED healthOthers

SpecHealth == InitHealth /\ [][NextHealth]_vars

\* The failures of the service of the last send_alert call that are recorded
\* since the service was last healthy and are less than failure_window old.
FailuresInWindow ==
    {k \in DOMAIN health.since[health.last.service] :
        health.last.at - health.since[health.last.service][k] < FailureWindow}

\* C28: health-check failure window.  A send_alert call for a failed service
\* decides to alert exactly when the failure it records brings the failures
\* of that service within the last failure_window seconds to at least
\* failure_threshold; a healthy service is never alerted for.
C28_FailureWindow ==
    health.last.service # "" =>
        (health.last.alerted <=>
            (~health.last.status /\ Cardinality(FailuresInWindow) >= FailureThreshold))

C28_Witness ==
    /\ health.last.service # ""
    /\ ~health.last.status
    /\ ~health.last.alerted
    /\ Len(health.since[health.last.service]) > FailureThreshold
    /\ health.since[health.last.service][Len(health.since[health.last.service])] = health.last.at

NoSuccess(tries) == \A k \in DOMAIN tries : ~tries[k]

\* C29: health-check recovery and retries.  The service of a send_alert call
\* counts as failed exactly when all retry_count attempts failed, and the
\* attempts stopped at the first success; a healthy result leaves the
\* service without failure history; an alert needs at least
\* failure_threshold failures since the service was last healthy; the
\* histories of the other services are as they were before the call.
C29_RetriesAndRecovery ==
    health.last.service # "" =>
        LET l == health.last
            n == Len(l.tries)
        IN /\ ~l.status <=> (n = RetryCount /\ NoSuccess(l.tries))
           /\ l.status => /\ n >= 1 /\ n <= RetryCount
                          /\ l.tries[n]
                          /\ NoSuccess(SubSeq(l.tries, 1, n - 1))
                          /\ l.service \notin DOMAIN health.failure_history
           /\ l.alerted => Len(health.since[l.service]) >= FailureThreshold
           /\ \A k \in DOMAIN HealthServices :
                 LET s == HealthServices[k]
                 IN s # l.service =>
                       /\ s \in DOMAIN l.before <=> s \in DOMAIN health.failure_history
                       /\ s \in DOMAIN l.before => health.failure_history[s] = l.before[s]

C29_Witness ==
    /\ health.last.service = "consul"
    /\ health.last.tries = <<FALSE, TRUE>>
    /\ "consul" \in DOMAIN health.last.before
    /\ "api" \in DOMAIN health.failure_history
    /\ Len(health.failure_history["api"]) >= 2

-----------------------------------------------------------------------------
(* position-service/main.py: create_position and close_position.  A close    *)
(* request is two steps, the query with the status test and the write with   *)
(* the commit.  The handlers are coroutines without an await and the service *)
(* runs one event loop (uvicorn.run, line 318), so a handler starts only     *)
(* when no other handler is between its two steps.                           *)

MaxPositions == 3        \* positions created
MaxCloseRequests == 4    \* close requests answered

PositionIds == 1..MaxPositions
PositionIdInputs == 1..(MaxPositions + 1)

CloseRequests == {"r1", "r2"}

NoCall == [pc |-> "idle", id |-> 0, was |-> "missing", price_given |-> FALSE]

NoRequest == [op |-> "none", id |-> 0, status |-> 0, was |-> "missing",
              changed |-> FALSE, appended |-> 0]

\* position.status != 'open', line 265, negated
IsOpen(status) == status = "open"

\* Handlers that start at any time, as with several server processes.
AnyTime(inflight) == TRUE

\* The event loop runs a coroutine up to its next await, and the handlers
\* have none: a handler starts when no other one is under way.
EventLoopFree(inflight) == \A r \in DOMAIN inflight : inflight[r].pc = "idle"

\* The 'close' events of the history of a position.
CloseEvents(events, id) ==
    {k \in DOMAIN events : events[k].position_id = id /\ events[k].event_type = "close"}

\* POST /positions.  The market price is fetched, the position is committed
\* with status 'open', then its 'open' event in a commit of its own; any
\* exception leaves through the except clause as 500.
CreatePosition(fetchok, commitok, historyok) ==
    LET id == Len(pos.rows) + 1
        stored == fetchok /\ commitok
        logged == stored /\ historyok
    IN /\ id <= MaxPositions
       /\ EventLoopFree(pos.inflight)
       /\ pos' = [pos EXCEPT
                     !.rows = IF stored THEN Append(@, "open") ELSE @,
                     !.events = IF logged
                                THEN Append(@, [position_id |-> id, event_type |-> "open"])
                                ELSE @,
                     !.last = [op |-> "create", id |-> IF stored THEN id ELSE 0,
                               status |-> IF logged THEN HTTP_200 ELSE HTTP_500,
                               was |-> "missing", changed |-> stored,
                               appended |-> IF logged THEN 1 ELSE 0]]

\* PUT /positions/{position_id}/close, lines 261-266: the position is
\* queried and its status tested.
CloseQuery(r, position_id, price_given) ==
    /\ pos.requests < MaxCloseRequests
    /\ EventLoopFree(pos.inflight)
    /\ pos' = [pos EXCEPT
                  !.requests = @ + 1,
                  !.inflight[r] = [pc |-> "queried", id |-> position_id,
                                   was |-> IF position_id \in DOMAIN pos.rows
                                           THEN pos.rows[position_id] ELSE "missing",
                                   price_given |-> price_given]]

\* Lines 268-296.  The 404 and the 400 are raised inside the try statement
\* and leave as 500, like a failing price request or commit; the status and
\* the 'close' event go into one commit.
CloseCommit(r, fetchok, commitok) ==
    LET call == pos.inflight[r]
        closes == /\ call.was # "missing" /\ IsOpen(call.was)
                  /\ (call.price_given \/ fetchok) /\ commitok
    IN /\ call.pc = "queried"
       /\ pos' = [pos EXCEPT
                     !.inflight[r] = NoCall,
                     !.rows = IF closes THEN [@ EXCEPT ![call.id] = "closed"] ELSE @,
                     !.events = IF closes
                                THEN Append(@, [position_id |-> call.id,
                                                event_type |-> "close"])
                                ELSE @,
                     !.last = [op |-> "close", id |-> call.id,
                               status |-> IF closes THEN HTTP_200 ELSE HTTP_500,
                               was |-> IF call.id \in DOMAIN pos.rows
                                       THEN pos.rows[call.id] ELSE "missing",
                               changed |-> closes,
                               appended |-> IF closes THEN 1 ELSE 0]]

posOthers == <<alertVars, disp, ev, loops, cycle, store, cfg,
               persist, gate, adm, runner, risk, calc, health>>

InitPos ==
    /\ AlertInit /\ alert_config = NoConfig
    /\ disp = DispIdle /\ ev = EvIdle /\ loops = LoopsIdle
    /\ cycle = CycleIdle /\ store = StoreIdle /\ cfg = CfgIdle
    /\ persist = PersistIdle /\ gate = GateIdle /\ adm = AdmIdle
    /\ runner = RunnerIdle /\ risk = RiskIdle /\ calc = CalcIdle /\ health = HealthIdle
    /\ pos = [rows |-> << >>, events |-> << >>, requests |-> 0,
              inflight |-> [r \in CloseRequests |-> NoCall], last |-> NoRequest]

NextPos ==
    \/ \E f \in BOOLEAN, c \in BOOLEAN, h \in BOOLEAN :
          CreatePosition(f, c, h) /\ UNCHANGED posOthers
    \/ \E r \in CloseRequests, id \in PositionIdInputs, g \in BOOLEAN :
          CloseQuery(r, id, g) /\ UNCHANGED posOthers
    \/ \E r \in CloseRequests, f \in BOOLEAN, c \in BOOLEAN :
          CloseCommit(r, f, c) /\ UNCHANGED posOthers

SpecPos == InitPos /\ [][NextPos]_vars

\* C30: a position is closed at most once.  A close request succeeds only
\* on an open position, which it moves to 'closed' with one 'close' event;
\* a request that fails changes nothing; and whatever requests were made, a
\* position has one 'close' event when it is closed and none while it is
\* open.
C30_ClosedAtMostOnce ==
    /\ \A id \in DOMAIN pos.rows :
          Cardinality(CloseEvents(pos.events, id)) = (IF pos.rows[id] = "closed" THEN 1 ELSE 0)
    /\ pos.last.op = "close" =>
          IF pos.last.status = HTTP_200
          THEN pos.last.was = "open" /\ pos.last.changed /\ pos.last.appended = 1
          ELSE ~pos.last.changed /\ pos.last.appended = 0

C30_Witness ==
    /\ pos.last.op = "close"
    /\ pos.last.status # HTTP_200
    /\ pos.last.was = "closed"
    /\ Cardinality(CloseEvents(pos.events, pos.last.id)) = 1

====
